---- MODULE Spec2Model ----
(***************************************************************************)
(* XSSpect: the HTTP requester with bounded retry (SendRequest), the       *)
(* reflection classifier (AnalyzeResponse), the scan loop that drives      *)
(* them (main / scanParameter) and the CSV report, the browser verifier    *)
(* (Start, Close, VerifyXSSExecution, VerifyWithRetry) and the payload     *)
(* injection into the URL (InjectPayload).                                 *)
(*                                                                         *)
(* Go strings are TLA+ strings, read as sequences of characters with Len,  *)
(* SubSeq and \o, so that substring search, replacement and case folding   *)
(* are computed and not assumed.                                           *)
(***************************************************************************)
EXTENDS Integers, Sequences, FiniteSets, TLC

VARIABLES
    config,        \* SendRequest: the RequestConfig it was called with
    attempt,       \* SendRequest: the loop counter
    lastErr,       \* SendRequest: lastErr
    result,        \* SendRequest: the RequestResult being built / returned
    spc,           \* SendRequest: "idle" | "loop" | "returned"
    attempts,      \* SendRequest: history, one entry per loop iteration
    payload,       \* AnalyzeResponse: the payload that was injected
    responseBody,  \* AnalyzeResponse: the body the server answered with
    analysis,      \* AnalyzeResponse: the AnalysisResult, once computed
    acpc,          \* AnalyzeResponse: "idle" | "responding" | "analyzed"
    written,       \* AnalyzeResponse: history, the number of pieces of the body
    scan,          \* main: the Config (Params, StopOnHit, BrowserVerify) and payloads
    mpc,           \* main: "idle" | "main" | "loop" | "return" | "done" | "reported"
    paramIdx,      \* main: position of the loop over config.Params
    payloadIdx,    \* scanParameter: position of the loop over payloads
    results,       \* scanParameter: results
    summary,       \* main: scanSummary (Results and the counts)
    browserVerifier, \* scanParameter: browserVerifier, "nil" or "bv"
    bv,            \* scanParameter: the BrowserVerifier object (service, driver)
    requests,      \* history: the <<parameter, payload>> positions requested
    navigations,   \* history: the <<parameter, payload>> positions the browser opened
    closes,        \* history: closes[p] is the number of Close calls on the verifier of parameter p
    failed,        \* history: the positions whose request returned an error
    classified,    \* history: the positions AnalyzeResponse was called for
    starts,        \* history: per parameter scanned, what Start did ("none": not called)
    verifyFailed,  \* history: the positions for which VerifyWithRetry returned an error
    report,        \* SaveCSVReport: the rows written
    verifiers,     \* BrowserVerifier objects: service and driver of each
    lifecycle,     \* history: per BrowserVerifier, the calls made and the quits / stops issued
    baseURL,       \* InjectPayload: baseURL
    target,        \* InjectPayload: parameter
    injected,      \* InjectPayload: payload
    testURL,       \* InjectPayload: the URL returned
    ipc,           \* InjectPayload: "idle" | "input" | "returned"
    verifier,      \* VerifyWithRetry: the BrowserVerifier it is called on (service, driver)
    verifyMaxRetries, \* VerifyWithRetry: maxRetries
    verifyAttempt, \* VerifyWithRetry: the loop counter attempt
    verifyLastErr, \* VerifyWithRetry: lastErr
    verifyReturn,  \* VerifyWithRetry: what it returned (detected, xssType, err)
    verifyLog,     \* history: what each VerifyXSSExecution of the call returned
    calls,         \* history: the driver calls of the current VerifyXSSExecution
    detected,      \* VerifyXSSExecution: detected, the value the first query returned
    attemptReturn, \* VerifyXSSExecution: what it returned (detected, xssType, err)
    vpc            \* VerifyWithRetry / VerifyXSSExecution: the position in the code

sendVars == <<config, attempt, lastErr, result, spc, attempts>>

analyzeVars == <<payload, responseBody, analysis, acpc, written>>

scanVars == <<scan, mpc, paramIdx, payloadIdx, results, summary, browserVerifier, bv,
              requests, navigations, failed, classified, starts, closes, verifyFailed, report>>

browserVars == <<verifiers, lifecycle>>

injectVars == <<baseURL, target, injected, testURL, ipc>>

verifyVars == <<verifier, verifyMaxRetries, verifyAttempt, verifyLastErr, verifyReturn, verifyLog,
                calls, detected, attemptReturn, vpc>>

vars == <<config, attempt, lastErr, result, spc, attempts,
          payload, responseBody, analysis, acpc, written,
          scan, mpc, paramIdx, payloadIdx, results, summary, browserVerifier, bv,
          requests, navigations, failed, classified, starts, closes, verifyFailed, report,
          verifiers, lifecycle, baseURL, target, injected, testURL, ipc,
          verifier, verifyMaxRetries, verifyAttempt, verifyLastErr, verifyReturn, verifyLog,
          calls, detected, attemptReturn, vpc>>

-----------------------------------------------------------------------------
(* Package strings.  Indexes are Go's: 0-based, -1 for "not found".         *)

UpperChars == "ABCDEFGHIJKLMNOPQRSTUVWXYZ"

LowerChars == "abcdefghijklmnopqrstuvwxyz"

CharAt(s, i) == SubSeq(s, i, i)

\* the lower-case letter of each upper-case letter
UpperToLower ==
    [c \in {CharAt(UpperChars, k) : k \in 1..Len(UpperChars)} |->
        CharAt(LowerChars, CHOOSE k \in 1..Len(UpperChars) : CharAt(UpperChars, k) = c)]

LowerChar(c) == IF c \in DOMAIN UpperToLower THEN UpperToLower[c] ELSE c

\* the strings ss[lo], ..., ss[hi] one after the other
RECURSIVE Join(_, _, _)
Join(ss, lo, hi) ==
    IF lo > hi THEN ""
    ELSE IF lo = hi THEN ss[lo]
    ELSE LET mid == (lo + hi) \div 2
         IN  Join(ss, lo, mid) \o Join(ss, mid + 1, hi)

ToLower(s) == Join([i \in 1..Len(s) |-> LowerChar(CharAt(s, i))], 1, Len(s))

\* Go's s[a:b]
Slice(s, a, b) == SubSeq(s, a + 1, b)

\* t occurs in s at the 1-based position i
OccursAt(s, t, i) == SubSeq(s, i, i + Len(t) - 1) = t

Occurrences(s, t) == {i \in 1..(Len(s) - Len(t) + 1) : OccursAt(s, t, i)}

Contains(s, t) == \E i \in 1..(Len(s) - Len(t) + 1) : OccursAt(s, t, i)

Index(s, t) ==
    LET occ == Occurrences(s, t)
    IN  IF occ = {} THEN -1
        ELSE (CHOOSE i \in occ : \A j \in occ : i <= j) - 1

LastIndex(s, t) ==
    LET occ == Occurrences(s, t)
    IN  IF occ = {} THEN -1
        ELSE (CHOOSE i \in occ : \A j \in occ : i >= j) - 1

\* non-overlapping occurrences, left to right; every caller passes a
\* non-empty old
RECURSIVE ReplaceAll(_, _, _)
ReplaceAll(s, old, new) ==
    LET i == Index(s, old)
    IN  IF old = "" \/ i = -1 THEN s
        ELSE Slice(s, 0, i) \o new
             \o ReplaceAll(Slice(s, i + Len(old), Len(s)), old, new)

-----------------------------------------------------------------------------
(* SendRequest                                                              *)

MaxRetries == 2

NoError == [kind |-> "nil"]

\* an error returned by http.NewRequest, client.Do or io.ReadAll
PlainError(text) == [kind |-> "plain", text |-> text]

\* fmt.Errorf(prefix + ": %w", inner)
WrapError(prefix, inner) == [kind |-> "wrapped", prefix |-> prefix, inner |-> inner]

RECURSIVE ErrorText(_)
ErrorText(err) ==
    IF err.kind = "plain" THEN err.text
    ELSE IF err.kind = "wrapped" THEN err.prefix \o ": " \o ErrorText(err.inner)
    ELSE ""

retryablePatterns == <<
    "timeout",
    "connection refused",
    "connection reset",
    "temporary failure",
    "network is unreachable",
    "no route to host",
    "broken pipe",
    "connection timed out",
    "i/o timeout"
>>

isRetryableError(err) ==
    IF err = NoError THEN FALSE
    ELSE LET errStr == ToLower(ErrorText(err))
         IN  \E k \in 1..Len(retryablePatterns) : Contains(errStr, retryablePatterns[k])

\* the zero RequestResult
ZeroResult == [StatusCode |-> 0, ResponseBody |-> "", Error |-> NoError]

\* errors client.Do fails with
TransportErrors == {
    PlainError("dial tcp: connect: connection refused"),
    PlainError("read tcp: i/o timeout"),
    PlainError("context deadline exceeded (Client.Timeout exceeded while awaiting headers)"),
    PlainError("write: Broken Pipe"),
    PlainError("lookup x.test: no such host"),
    PlainError("EOF"),
    PlainError("x509: certificate has expired")
}

\* the error io.ReadAll fails with
ErrUnexpectedEOF == PlainError("unexpected EOF")

\* http.NewRequest fails on a method that is not a token and on a URL that
\* does not parse, and on nothing else: it is a function of the config.
Configs == {
    [URL |-> "http://x.test/s?q=1", Method |-> "GET"],
    [URL |-> "http://x.test/s?q=1", Method |-> "POST"],
    [URL |-> "http://x.test/s?q=1", Method |-> "G ET"],
    [URL |-> ":bad", Method |-> "GET"]
}

NewRequestErr(cfg) ==
    IF cfg.Method = "G ET" THEN PlainError("net/http: invalid method \"G ET\"")
    ELSE IF cfg.URL = ":bad" THEN PlainError("parse \":bad\": missing protocol scheme")
    ELSE NoError

StatusCodes == {200, 403, 500}

Bodies == {"", "ok"}

SendIdle ==
    /\ config = [URL |-> "", Method |-> ""]
    /\ attempt = 0
    /\ lastErr = NoError
    /\ result = ZeroResult
    /\ spc = "idle"
    /\ attempts = <<>>

AnalyzeIdle ==
    /\ payload = ""
    /\ responseBody = ""
    /\ analysis = [Type |-> ""]
    /\ acpc = "idle"
    /\ written = 0

ScanIdle ==
    /\ scan = [Params |-> <<>>, StopOnHit |-> FALSE, BrowserVerify |-> FALSE,
               payloads |-> <<>>]
    /\ mpc = "idle"
    /\ paramIdx = 0
    /\ payloadIdx = 0
    /\ results = <<>>
    /\ summary = [Results |-> <<>>, RawCount |-> 0, EscapedCount |-> 0, VerifiedCount |-> 0]
    /\ browserVerifier = "nil"
    /\ bv = [service |-> "nil", driver |-> "nil"]
    /\ requests = <<>>
    /\ navigations = <<>>
    /\ failed = {}
    /\ classified = {}
    /\ starts = <<>>
    /\ closes = <<>>
    /\ verifyFailed = {}
    /\ report = <<>>

BrowserIdle ==
    /\ verifiers = <<>>
    /\ lifecycle = <<>>

InjectIdle ==
    /\ baseURL = ""
    /\ target = ""
    /\ injected = ""
    /\ testURL = ""
    /\ ipc = "idle"

VerifyIdle ==
    /\ verifier = [service |-> "nil", driver |-> "nil"]
    /\ verifyMaxRetries = 0
    /\ verifyAttempt = 0
    /\ verifyLastErr = NoError
    /\ verifyReturn = [detected |-> FALSE, xssType |-> "", err |-> NoError]
    /\ verifyLog = <<>>
    /\ calls = <<>>
    /\ detected = "nil"
    /\ attemptReturn = [detected |-> FALSE, xssType |-> "", err |-> NoError]
    /\ vpc = "idle"

SendInit ==
    /\ config \in Configs
    /\ attempt = 0
    /\ lastErr = NoError
    /\ result = ZeroResult
    /\ spc = "loop"
    /\ attempts = <<>>
    /\ AnalyzeIdle
    /\ ScanIdle
    /\ BrowserIdle
    /\ InjectIdle
    /\ VerifyIdle

InLoop == spc = "loop" /\ attempt <= MaxRetries

\* lines 46-50: the request cannot be constructed
AttemptConstructFails ==
    /\ InLoop
    /\ NewRequestErr(config) # NoError
    /\ lastErr' = NewRequestErr(config)
    /\ attempt' = attempt + 1
    /\ attempts' = Append(attempts, [kind |-> "construct", err |-> NewRequestErr(config)])
    /\ UNCHANGED <<config, result, spc>>
    /\ UNCHANGED <<analyzeVars, scanVars, browserVars, injectVars, verifyVars>>

\* lines 56-68: client.Do fails with err
AttemptTransportError(err) ==
    /\ InLoop
    /\ NewRequestErr(config) = NoError
    /\ lastErr' = err
    /\ attempts' = Append(attempts, [kind |-> "transport", err |-> err])
    /\ IF attempt < MaxRetries /\ isRetryableError(err)
       THEN /\ attempt' = attempt + 1
            /\ UNCHANGED <<result, spc>>
       ELSE /\ result' = [result EXCEPT !.Error = err]
            /\ spc' = "returned"
            /\ UNCHANGED attempt
    /\ UNCHANGED config
    /\ UNCHANGED <<analyzeVars, scanVars, browserVars, injectVars, verifyVars>>

\* lines 70-77: client.Do answers, reading the body fails
AttemptBodyReadFails(status) ==
    /\ InLoop
    /\ NewRequestErr(config) = NoError
    /\ attempts' = Append(attempts, [kind |-> "bodyread", status |-> status])
    /\ result' = [result EXCEPT
                    !.Error = WrapError("failed to read response body", ErrUnexpectedEOF)]
    /\ spc' = "returned"
    /\ UNCHANGED <<config, attempt, lastErr>>
    /\ UNCHANGED <<analyzeVars, scanVars, browserVars, injectVars, verifyVars>>

\* a requester that treats a 5xx answer as a failure to retry
AttemptResponseRetry5xx(status, body) ==
    /\ InLoop
    /\ NewRequestErr(config) = NoError
    /\ attempts' = Append(attempts, [kind |-> "response", status |-> status, body |-> body])
    /\ IF status >= 500 /\ attempt < MaxRetries
       THEN /\ attempt' = attempt + 1
            /\ UNCHANGED <<result, spc>>
       ELSE /\ result' = [StatusCode |-> status, ResponseBody |-> body, Error |-> NoError]
            /\ spc' = "returned"
            /\ UNCHANGED attempt
    /\ UNCHANGED <<config, lastErr>>
    /\ UNCHANGED <<analyzeVars, scanVars, browserVars, injectVars, verifyVars>>

\* lines 70-82: client.Do answers and the body is read
AttemptResponse(status, body) ==
    /\ InLoop
    /\ NewRequestErr(config) = NoError
    /\ attempts' = Append(attempts, [kind |-> "response", status |-> status, body |-> body])
    /\ result' = [StatusCode |-> status, ResponseBody |-> body, Error |-> NoError]
    /\ spc' = "returned"
    /\ UNCHANGED <<config, attempt, lastErr>>
    /\ UNCHANGED <<analyzeVars, scanVars, browserVars, injectVars, verifyVars>>

\* lines 85-87: the loop ran out
RetriesExhausted ==
    /\ spc = "loop"
    /\ attempt > MaxRetries
    /\ result' = [result EXCEPT
                    !.Error = WrapError("request failed after 2 retries", lastErr)]
    /\ spc' = "returned"
    /\ UNCHANGED <<config, attempt, lastErr, attempts>>
    /\ UNCHANGED <<analyzeVars, scanVars, browserVars, injectVars, verifyVars>>

SendNext ==
    \/ AttemptConstructFails
    \/ \E err \in TransportErrors : AttemptTransportError(err)
    \/ \E status \in StatusCodes : AttemptBodyReadFails(status)
    \/ \E status \in StatusCodes, body \in Bodies : AttemptResponse(status, body)
    \/ RetriesExhausted

SpecSend == SendInit /\ [][SendNext]_vars

-----------------------------------------------------------------------------
(* AnalyzeResponse and its helpers                                          *)

RawReflection == "RAW_REFLECTION"

EscapedReflection == "ESCAPED"

NoReflection == "NO_REFLECTION"

SnippetLength == 40

ContextWindow == 500

\* an escaper that turns to the ampersand last, and so escapes the entities it
\* has just written
escapeHTMLAmpersandLast(s) ==
    LET s1 == ReplaceAll(s, "<", "&lt;")
        s2 == ReplaceAll(s1, ">", "&gt;")
        s3 == ReplaceAll(s2, "\"", "&quot;")
        s4 == ReplaceAll(s3, "'", "&#39;")
    IN  ReplaceAll(s4, "&", "&amp;")

escapeHTML(s) ==
    LET s1 == ReplaceAll(s, "&", "&amp;")
        s2 == ReplaceAll(s1, "<", "&lt;")
        s3 == ReplaceAll(s2, ">", "&gt;")
        s4 == ReplaceAll(s3, "\"", "&quot;")
    IN  ReplaceAll(s4, "'", "&#39;")

\* the table, in its order
escapePatterns == <<
    [from |-> "<", to |-> "&lt;"],
    [from |-> ">", to |-> "&gt;"],
    [from |-> "\"", to |-> "&quot;"],
    [from |-> "'", to |-> "&#39;"],
    [from |-> "'", to |-> "&apos;"],
    [from |-> "&", to |-> "&amp;"]
>>

\* the values testPayload takes in the loop: the k-th is the (k-1)-th (the
\* payload itself for k = 1) with the k-th pattern applied
RECURSIVE testPayloads(_, _)
testPayloads(pl, k) ==
    IF k = 0 THEN <<>>
    ELSE LET earlier == testPayloads(pl, k - 1)
             testPayload == IF k = 1 THEN pl ELSE earlier[k - 1]
         IN  Append(earlier,
                    ReplaceAll(testPayload, escapePatterns[k].from, escapePatterns[k].to))

\* the characters of s
Chars(s) == {CharAt(s, i) : i \in 1..Len(s)}

containsEncodedPayload(body, pl) ==
    \E char \in Chars(pl) : Contains(body, "&#" \o char \o ";")

commonFragments == {
    "<script", "</script>", "<script>",
    "<style", "</style>", "<style>",
    "<div", "</div>", "<div>",
    "<span", "</span>", "<span>",
    "<svg", "</svg>", "<svg>",
    "<img", "</img>", "<img>",
    "<a", "</a>", "<a>",
    "<body", "</body>", "<body>",
    "<html", "</html>", "<html>",
    "<head", "</head>", "<head>",
    "<link", "</link>", "<link>",
    "<meta", "</meta>", "<meta>",
    "<iframe", "</iframe>", "<iframe>",
    "<form", "</form>", "<form>",
    "<input", "</input>", "<input>",
    "<button", "</button>", "<button>",
    "<p", "</p>", "<p>",
    "<h1", "</h1>", "<h1>",
    "<h2", "</h2>", "<h2>",
    "<h3", "</h3>", "<h3>",
    "<ul", "</ul>", "<ul>",
    "<li", "</li>", "<li>",
    "<table", "</table>", "<table>",
    "<tr", "</tr>", "<tr>",
    "<td", "</td>", "<td>"
}

isCommonHTMLFragment(s) == s \in commonFragments

safeContexts == <<
    "<!--", "<title>", "<textarea", "<noscript>", "<style", "<xmp>", "<plaintext>", "<listing>"
>>

\* closingTags[safeContexts[k]]
closingTags == <<
    "-->", "</title>", "</textarea>", "</noscript>", "</style>", "</xmp>", "", "</listing>"
>>

\* a context test that does not look for the opening tag before the payload
isInDangerousContextNoOpeningTag(body, pl) ==
    LET index == Index(body, pl)
    IN  IF index = -1 THEN FALSE
        ELSE
        LET contextLower == ToLower(body)
            payloadPos == Index(contextLower, ToLower(pl))
            after == Slice(contextLower, payloadPos, Len(contextLower))
            judgedSafe(k) ==
                \/ closingTags[k] = ""
                \/ LET closingPos == Index(after, closingTags[k])
                   IN  closingPos = -1 \/ closingPos > Len(pl)
        IN  ~(\E k \in 1..Len(safeContexts) : judgedSafe(k))

isInDangerousContext(body, pl) ==
    LET index == Index(body, pl)
    IN  IF index = -1 THEN FALSE
        ELSE
        LET contextStart == IF index - ContextWindow < 0 THEN 0 ELSE index - ContextWindow
            contextEnd == IF index + Len(pl) + ContextWindow > Len(body)
                          THEN Len(body)
                          ELSE index + Len(pl) + ContextWindow
            contextLower == ToLower(Slice(body, contextStart, contextEnd))
            payloadPos == Index(contextLower, ToLower(pl))
            before == Slice(contextLower, 0, payloadPos)
            after == Slice(contextLower, payloadPos, Len(contextLower))
            \* the loop returns false at the first safe context that matches
            judgedSafe(k) ==
                /\ LastIndex(before, safeContexts[k]) # -1
                /\ \/ closingTags[k] = ""
                   \/ LET closingPos == Index(after, closingTags[k])
                      IN  closingPos = -1 \/ closingPos > Len(pl)
        IN  ~(\E k \in 1..Len(safeContexts) : judgedSafe(k))

ReflectionTypeOf(body, pl) ==
    IF /\ Contains(body, pl)
       /\ (Len(pl) >= 3 \/ ~isCommonHTMLFragment(pl))
    THEN IF isInDangerousContext(body, pl) THEN RawReflection ELSE EscapedReflection
    ELSE IF escapeHTML(pl) # pl /\ Contains(body, escapeHTML(pl))
    THEN EscapedReflection
    ELSE IF LET tried == testPayloads(pl, Len(escapePatterns))
            IN  \E k \in 1..Len(escapePatterns) : Contains(body, tried[k])
    THEN EscapedReflection
    ELSE IF containsEncodedPayload(body, pl)
    THEN EscapedReflection
    ELSE NoReflection

AnalyzeResponse(body, pl, parameter) ==
    [Type |-> ReflectionTypeOf(body, pl),
     Parameter |-> parameter,
     Payload |-> pl,
     ResponseSnippet |-> IF Len(body) > SnippetLength
                         THEN Slice(body, 0, SnippetLength)
                         ELSE body]

-----------------------------------------------------------------------------
(* The classifier's inputs: a payload from the list the scan loaded, and a  *)
(* response body the server composed piece by piece.                        *)

Payloads == {
    "<script>alert(1)</script>",
    "'a&b'",
    "<a",
    "ab"
}

\* markup and text a page puts around a reflected value
Fragments == {
    "<!-- ", " -->",
    "<textarea>", "</textarea>",
    "<div>Hello ", " World</div>",
    "&#1;"
}

MaxPieces == 3

\* printable ASCII: the character at position k has code k + 31 (a tab stands
\* at the place of code 96)
AsciiChars == " !\"#$%&'()*+,-./0123456789:;<=>?@ABCDEFGHIJKLMNOPQRSTUVWXYZ[\\]^_\tabcdefghijklmnopqrstuvwxyz{|}~"

CharCode(c) == (CHOOSE k \in 1..Len(AsciiChars) : CharAt(AsciiChars, k) = c) + 31

RECURSIVE Decimal(_)
Decimal(n) == IF n < 10 THEN CharAt("0123456789", n + 1)
              ELSE Decimal(n \div 10) \o CharAt("0123456789", (n % 10) + 1)

\* a server that writes every character as a numeric character reference
NumericReference(c) == "&#" \o Decimal(CharCode(c)) \o ";"

NumericEncoded(pl) ==
    Join([i \in 1..Len(pl) |-> NumericReference(CharAt(pl, i))], 1, Len(pl))

\* a server that writes the five HTML special characters as entities
EntityOf(c) ==
    CASE c = "&" -> "&amp;"
      [] c = "<" -> "&lt;"
      [] c = ">" -> "&gt;"
      [] c = "\"" -> "&quot;"
      [] c = "'" -> "&#39;"
      [] OTHER -> c

EntityEscaped(pl) == Join([i \in 1..Len(pl) |-> EntityOf(CharAt(pl, i))], 1, Len(pl))

\* the upper-case letter of each lower-case letter
LowerToUpper ==
    [c \in {CharAt(LowerChars, k) : k \in 1..Len(LowerChars)} |->
        CharAt(UpperChars, CHOOSE k \in 1..Len(LowerChars) : CharAt(LowerChars, k) = c)]

\* a server that writes the value in upper case
UpperCased(pl) ==
    Join([i \in 1..Len(pl) |->
            IF CharAt(pl, i) \in DOMAIN LowerToUpper
            THEN LowerToUpper[CharAt(pl, i)]
            ELSE CharAt(pl, i)], 1, Len(pl))

\* a server that rewrites one character only, as the k-th escape pattern does
Substituted(pl, k) ==
    LET sub(c) == IF c = escapePatterns[k].from THEN escapePatterns[k].to ELSE c
    IN  Join([i \in 1..Len(pl) |-> sub(CharAt(pl, i))], 1, Len(pl))

AnalyzeInit ==
    /\ SendIdle
    /\ ScanIdle
    /\ BrowserIdle
    /\ InjectIdle
    /\ VerifyIdle
    /\ payload \in Payloads
    /\ responseBody = ""
    /\ analysis = [Type |-> ""]
    /\ acpc = "responding"
    /\ written = 0

Responding == acpc = "responding" /\ written < MaxPieces

Wrote(piece) ==
    /\ responseBody' = responseBody \o piece
    /\ written' = written + 1
    /\ UNCHANGED <<payload, analysis, acpc>>
    /\ UNCHANGED <<sendVars, scanVars, browserVars, injectVars, verifyVars>>

RespondFragment(f) == Responding /\ Wrote(f)

RespondRaw == Responding /\ Wrote(payload)

RespondEntityEscaped == Responding /\ Wrote(EntityEscaped(payload))

RespondSubstituted(k) ==
    /\ Responding
    /\ Contains(payload, escapePatterns[k].from)
    /\ Wrote(Substituted(payload, k))

RespondUpperCased ==
    /\ Responding
    /\ UpperCased(payload) # payload
    /\ Wrote(UpperCased(payload))

RespondNumeric == Responding /\ Wrote(NumericEncoded(payload))

Analyze ==
    /\ acpc = "responding"
    /\ analysis' = AnalyzeResponse(responseBody, payload, "q")
    /\ acpc' = "analyzed"
    /\ UNCHANGED <<payload, responseBody, written>>
    /\ UNCHANGED <<sendVars, scanVars, browserVars, injectVars, verifyVars>>

AnalyzeNext ==
    \/ \E f \in Fragments : RespondFragment(f)
    \/ RespondRaw
    \/ RespondEntityEscaped
    \/ \E k \in 1..Len(escapePatterns) : RespondSubstituted(k)
    \/ RespondNumeric
    \/ RespondUpperCased
    \/ Analyze

SpecAnalyze == AnalyzeInit /\ [][AnalyzeNext]_vars

-----------------------------------------------------------------------------
(* main and scanParameter                                                   *)

\* VerifyWithRetry is called with maxRetries = 1
VerifyRetries == 1

\* what one VerifyXSSExecution returns: (detected, xssType, err)
VerifyOutcomes == {
    [detected |-> TRUE, xssType |-> "alert", err |-> NoError],
    [detected |-> TRUE, xssType |-> "", err |-> NoError],
    [detected |-> FALSE, xssType |-> "", err |-> NoError],
    [detected |-> FALSE, xssType |-> "", err |-> PlainError("failed to load page")]
}

\* VerifyWithRetry from the given attempt on; oracle[k] is what the k-th
\* VerifyXSSExecution returns
RECURSIVE VerifyWithRetryFrom(_, _, _, _)
VerifyWithRetryFrom(oracle, maxRetries, att, last) ==
    IF att > maxRetries
    THEN [detected |-> FALSE, xssType |-> "", err |-> last, tries |-> att]
    ELSE LET r == oracle[att + 1]
         IN  IF r.err = NoError
             THEN [detected |-> r.detected, xssType |-> r.xssType, err |-> NoError,
                   tries |-> att + 1]
             ELSE VerifyWithRetryFrom(oracle, maxRetries, att + 1, r.err)

VerifyWithRetry(oracle, maxRetries) == VerifyWithRetryFrom(oracle, maxRetries, 0, NoError)

\* the pages a server answers a request for a payload with
PageBodies(pl) == {
    "<p>" \o pl \o "</p>",
    "<p>" \o EntityEscaped(pl) \o "</p>",
    "<p></p>"
}

\* what SendRequest returns to the scan: an error outcome or a response
RequestResults(pl) ==
    {[StatusCode |-> 0, ResponseBody |-> "",
      Error |-> PlainError("dial tcp: connect: connection refused")]}
    \cup {[StatusCode |-> 200, ResponseBody |-> b, Error |-> NoError] : b \in PageBodies(pl)}

ScanConfigs == {
    [Params |-> <<"q", "id">>, StopOnHit |-> soh, BrowserVerify |-> bver,
     payloads |-> <<"<script>alert(1)</script>", "'a&b'">>] : soh \in BOOLEAN, bver \in BOOLEAN
}

ZeroSummary == [Results |-> <<>>, RawCount |-> 0, EscapedCount |-> 0, VerifiedCount |-> 0]

Init ==
    /\ SendIdle
    /\ AnalyzeIdle
    /\ BrowserIdle
    /\ InjectIdle
    /\ VerifyIdle
    /\ scan \in ScanConfigs
    /\ mpc = "main"
    /\ paramIdx = 1
    /\ payloadIdx = 0
    /\ results = <<>>
    /\ summary = ZeroSummary
    /\ browserVerifier = "nil"
    /\ bv = [service |-> "nil", driver |-> "nil"]
    /\ requests = <<>>
    /\ navigations = <<>>
    /\ failed = {}
    /\ classified = {}
    /\ starts = <<>>
    /\ closes = <<>>
    /\ verifyFailed = {}
    /\ report = <<>>

\* BrowserVerifier.Start on a fresh verifier: the driver service does not
\* start, or the browser connection cannot be created, or both succeed
StartOutcomes == {"service failed", "remote failed", "started"}

Start(outcome) ==
    IF outcome = "service failed" THEN [service |-> "nil", driver |-> "nil"]
    ELSE IF outcome = "remote failed" THEN [service |-> "stopped", driver |-> "nil"]
    ELSE [service |-> "running", driver |-> "open"]

\* BrowserVerifier.Close
Close(b) ==
    [service |-> IF b.service # "nil" THEN "stopped" ELSE b.service,
     driver |-> IF b.driver # "nil" THEN "quit" ELSE b.driver]

\* a scan that keeps the verifier also when Start failed
EnterScanParameterKeepsVerifier(outcome) ==
    /\ mpc = "main"
    /\ paramIdx <= Len(scan.Params)
    /\ results' = <<>>
    /\ payloadIdx' = 1
    /\ mpc' = "loop"
    /\ IF scan.BrowserVerify
       THEN /\ bv' = Start(outcome)
            /\ browserVerifier' = "bv"
       ELSE /\ outcome = "started"
            /\ bv' = [service |-> "nil", driver |-> "nil"]
            /\ browserVerifier' = "nil"
    /\ starts' = Append(starts, IF scan.BrowserVerify THEN outcome ELSE "none")
    /\ closes' = Append(closes, 0)
    /\ UNCHANGED <<scan, paramIdx, summary, requests, navigations, failed, classified,
                   verifyFailed, report>>
    /\ UNCHANGED <<sendVars, analyzeVars, browserVars, injectVars, verifyVars>>

\* lines 710-711 and 933-967: main calls scanParameter for the next parameter,
\* which sets up the browser when verification is enabled
EnterScanParameter(outcome) ==
    /\ mpc = "main"
    /\ paramIdx <= Len(scan.Params)
    /\ results' = <<>>
    /\ payloadIdx' = 1
    /\ mpc' = "loop"
    /\ IF scan.BrowserVerify
       THEN /\ bv' = Start(outcome)
            /\ browserVerifier' = IF outcome = "started" THEN "bv" ELSE "nil"
       ELSE /\ outcome = "started"
            /\ bv' = [service |-> "nil", driver |-> "nil"]
            /\ browserVerifier' = "nil"
    /\ starts' = Append(starts, IF scan.BrowserVerify THEN outcome ELSE "none")
    /\ closes' = Append(closes, 0)
    /\ UNCHANGED <<scan, paramIdx, summary, requests, navigations, failed, classified,
                   verifyFailed, report>>
    /\ UNCHANGED <<sendVars, analyzeVars, browserVars, injectVars, verifyVars>>

InTrialLoop == mpc = "loop" /\ payloadIdx <= Len(scan.payloads)

\* a scan that calls the verifier also when no session was started
NeedsVerificationWithoutSession(type) ==
    scan.BrowserVerify /\ type = RawReflection

\* line 998: the trial goes to the browser
NeedsVerificationAnyVerdict(type) ==
    scan.BrowserVerify /\ browserVerifier # "nil"

NeedsVerification(type) ==
    scan.BrowserVerify /\ browserVerifier # "nil" /\ type = RawReflection

\* a scan that never stops early
StopsOnHitNever(type) == FALSE

\* lines 1022 and 1045: the trial ends the parameter's loop
StopsOnHit(type) == type = RawReflection /\ scan.StopOnHit

\* lines 1011-1018: the trial as recorded
ScanResult(type, browserVerified, xssEventType) ==
    [Parameter |-> scan.Params[paramIdx],
     Payload |-> scan.payloads[payloadIdx],
     ReflectionType |-> type,
     BrowserVerified |-> browserVerified,
     XSSEventType |-> xssEventType]

\* a scan that records a failed request as a trial without reflection
TrialRequestFailsRecorded(res) ==
    /\ InTrialLoop
    /\ res.Error # NoError
    /\ requests' = Append(requests, <<paramIdx, payloadIdx>>)
    /\ results' = Append(results, ScanResult(NoReflection, FALSE, ""))
    /\ payloadIdx' = payloadIdx + 1
    /\ failed' = failed \cup {<<paramIdx, payloadIdx>>}
    /\ UNCHANGED <<scan, mpc, paramIdx, summary, browserVerifier, bv, navigations,
                   classified, starts, closes, verifyFailed,
                   report>>
    /\ UNCHANGED <<sendVars, analyzeVars, browserVars, injectVars, verifyVars>>

\* lines 969-990: the request ends in an error; the payload is skipped
TrialRequestFails(res) ==
    /\ InTrialLoop
    /\ res.Error # NoError
    /\ requests' = Append(requests, <<paramIdx, payloadIdx>>)
    /\ payloadIdx' = payloadIdx + 1
    /\ failed' = failed \cup {<<paramIdx, payloadIdx>>}
    /\ UNCHANGED <<scan, mpc, paramIdx, results, summary, browserVerifier, bv, navigations,
                   classified, starts, closes, verifyFailed,
                   report>>
    /\ UNCHANGED <<sendVars, analyzeVars, browserVars, injectVars, verifyVars>>

\* lines 969-1069, the browser not called
TrialStatic(res) ==
    /\ InTrialLoop
    /\ res.Error = NoError
    /\ LET type == AnalyzeResponse(res.ResponseBody, scan.payloads[payloadIdx],
                                   scan.Params[paramIdx]).Type
       IN  /\ ~NeedsVerification(type)
           /\ results' = Append(results, ScanResult(type, FALSE, ""))
           /\ IF StopsOnHit(type)
              THEN mpc' = "return" /\ UNCHANGED payloadIdx
              ELSE payloadIdx' = payloadIdx + 1 /\ UNCHANGED mpc
    /\ requests' = Append(requests, <<paramIdx, payloadIdx>>)
    /\ classified' = classified \cup {<<paramIdx, payloadIdx>>}
    /\ UNCHANGED <<scan, paramIdx, summary, browserVerifier, bv, navigations, failed,
                   starts, closes, verifyFailed,
                   report>>
    /\ UNCHANGED <<sendVars, analyzeVars, browserVars, injectVars, verifyVars>>

\* a scan that drops the trial when the verification returns an error
TrialVerifiedDropsOnError(res) ==
    /\ InTrialLoop
    /\ res.Error = NoError
    /\ LET type == AnalyzeResponse(res.ResponseBody, scan.payloads[payloadIdx],
                                   scan.Params[paramIdx]).Type
       IN  /\ NeedsVerification(type)
           /\ \E oracle \in [1..(VerifyRetries + 1) -> VerifyOutcomes] :
                 LET v == VerifyWithRetry(oracle, VerifyRetries)
                 IN  /\ navigations' =
                            navigations \o [k \in 1..v.tries |-> <<paramIdx, payloadIdx>>]
                     /\ results' = IF v.err # NoError THEN results
                                   ELSE Append(results, ScanResult(type, v.detected, v.xssType))
                     /\ verifyFailed' = IF v.err # NoError
                                        THEN verifyFailed \cup {<<paramIdx, payloadIdx>>}
                                        ELSE verifyFailed
           /\ IF StopsOnHit(type)
              THEN mpc' = "return" /\ UNCHANGED payloadIdx
              ELSE payloadIdx' = payloadIdx + 1 /\ UNCHANGED mpc
    /\ requests' = Append(requests, <<paramIdx, payloadIdx>>)
    /\ classified' = classified \cup {<<paramIdx, payloadIdx>>}
    /\ UNCHANGED <<scan, paramIdx, summary, browserVerifier, bv, failed, starts, closes, report>>
    /\ UNCHANGED <<sendVars, analyzeVars, browserVars, injectVars, verifyVars>>

\* lines 969-1069, with VerifyWithRetry
TrialVerified(res) ==
    /\ InTrialLoop
    /\ res.Error = NoError
    /\ LET type == AnalyzeResponse(res.ResponseBody, scan.payloads[payloadIdx],
                                   scan.Params[paramIdx]).Type
       IN  /\ NeedsVerification(type)
           /\ \E oracle \in [1..(VerifyRetries + 1) -> VerifyOutcomes] :
                 LET v == VerifyWithRetry(oracle, VerifyRetries)
                     browserVerified == v.err = NoError /\ v.detected
                 IN  /\ navigations' =
                            navigations \o [k \in 1..v.tries |-> <<paramIdx, payloadIdx>>]
                     /\ results' = Append(results,
                                          ScanResult(type, browserVerified,
                                                     IF browserVerified THEN v.xssType ELSE ""))
                     /\ verifyFailed' = IF v.err # NoError
                                        THEN verifyFailed \cup {<<paramIdx, payloadIdx>>}
                                        ELSE verifyFailed
           /\ IF StopsOnHit(type)
              THEN mpc' = "return" /\ UNCHANGED payloadIdx
              ELSE payloadIdx' = payloadIdx + 1 /\ UNCHANGED mpc
    /\ requests' = Append(requests, <<paramIdx, payloadIdx>>)
    /\ classified' = classified \cup {<<paramIdx, payloadIdx>>}
    /\ UNCHANGED <<scan, paramIdx, summary, browserVerifier, bv, failed, starts, closes, report>>
    /\ UNCHANGED <<sendVars, analyzeVars, browserVars, injectVars, verifyVars>>

\* a scan whose early return on a hit skips the Close
ScanParameterReturnsLeaksOnHit ==
    /\ \/ mpc = "return"
       \/ mpc = "loop" /\ payloadIdx > Len(scan.payloads)
    /\ bv' = IF browserVerifier # "nil" /\ mpc # "return" THEN Close(bv) ELSE bv
    /\ closes' = IF browserVerifier # "nil" /\ mpc # "return"
               THEN [closes EXCEPT ![paramIdx] = @ + 1]
               ELSE closes
    /\ summary' = [summary EXCEPT !.Results = summary.Results \o results]
    /\ paramIdx' = paramIdx + 1
    /\ mpc' = "main"
    /\ results' = <<>>
    /\ UNCHANGED <<scan, payloadIdx, browserVerifier, requests, navigations, failed,
                   classified, starts, verifyFailed, report>>
    /\ UNCHANGED <<sendVars, analyzeVars, browserVars, injectVars, verifyVars>>

\* a scan that puts the results of a parameter in front of the earlier ones
ScanParameterReturnsPrepends ==
    /\ \/ mpc = "return"
       \/ mpc = "loop" /\ payloadIdx > Len(scan.payloads)
    /\ bv' = IF browserVerifier # "nil" THEN Close(bv) ELSE bv
    /\ closes' = IF browserVerifier # "nil"
               THEN [closes EXCEPT ![paramIdx] = @ + 1]
               ELSE closes
    /\ summary' = [summary EXCEPT !.Results = results \o summary.Results]
    /\ paramIdx' = paramIdx + 1
    /\ mpc' = "main"
    /\ results' = <<>>
    /\ UNCHANGED <<scan, payloadIdx, browserVerifier, requests, navigations, failed,
                   classified, starts, verifyFailed, report>>
    /\ UNCHANGED <<sendVars, analyzeVars, browserVars, injectVars, verifyVars>>

\* lines 1047 and 1083, the deferred Close of line 959, and line 712
ScanParameterReturns ==
    /\ \/ mpc = "return"
       \/ mpc = "loop" /\ payloadIdx > Len(scan.payloads)
    /\ bv' = IF browserVerifier # "nil" THEN Close(bv) ELSE bv
    /\ closes' = IF browserVerifier # "nil"
               THEN [closes EXCEPT ![paramIdx] = @ + 1]
               ELSE closes
    /\ summary' = [summary EXCEPT !.Results = summary.Results \o results]
    /\ paramIdx' = paramIdx + 1
    /\ mpc' = "main"
    /\ results' = <<>>
    /\ UNCHANGED <<scan, payloadIdx, browserVerifier, requests, navigations, failed,
                   classified, starts, verifyFailed,
                   report>>
    /\ UNCHANGED <<sendVars, analyzeVars, browserVars, injectVars, verifyVars>>

\* lines 715-727: the counts of the summary
Finish ==
    /\ mpc = "main"
    /\ paramIdx > Len(scan.Params)
    /\ LET rs == summary.Results
           raw == {i \in 1..Len(rs) : rs[i].ReflectionType = RawReflection}
           verified == {i \in raw : rs[i].BrowserVerified}
           escaped == {i \in 1..Len(rs) : rs[i].ReflectionType = EscapedReflection}
       IN  summary' = [summary EXCEPT
                         !.RawCount = Cardinality(raw),
                         !.VerifiedCount = Cardinality(verified),
                         !.EscapedCount = Cardinality(escaped)]
    /\ mpc' = "done"
    /\ UNCHANGED <<scan, paramIdx, payloadIdx, results, browserVerifier, bv,
                   requests, navigations, failed, classified, starts, closes, verifyFailed, report>>
    /\ UNCHANGED <<sendVars, analyzeVars, browserVars, injectVars, verifyVars>>

\* reporter.go, getSeverity
getSeverity(r) ==
    IF r.ReflectionType = RawReflection
    THEN IF r.BrowserVerified THEN "Critical" ELSE "High"
    ELSE IF r.ReflectionType = EscapedReflection THEN "Low"
    ELSE "Info"

\* one row of the CSV report (the columns that depend on the trial)
CSVRow(r) ==
    [Parameter |-> r.Parameter,
     Payload |-> r.Payload,
     Reflection_Type |-> r.ReflectionType,
     Browser_Verified |-> IF r.BrowserVerified THEN "Yes" ELSE "No",
     XSS_Event_Type |-> r.XSSEventType,
     Severity |-> getSeverity(r)]

\* main lines 729-738 with --report: SaveCSVReport writes one row per result
SaveCSVReport ==
    /\ mpc = "done"
    /\ report' = [i \in 1..Len(summary.Results) |-> CSVRow(summary.Results[i])]
    /\ mpc' = "reported"
    /\ UNCHANGED <<scan, paramIdx, payloadIdx, results, summary, browserVerifier, bv,
                   requests, navigations, failed, classified, starts, closes,
                   verifyFailed>>
    /\ UNCHANGED <<sendVars, analyzeVars, browserVars, injectVars, verifyVars>>

\* line 983: what the request of the current trial can return
TrialResults ==
    IF InTrialLoop THEN RequestResults(scan.payloads[payloadIdx]) ELSE {}

Next ==
    \/ \E outcome \in StartOutcomes : EnterScanParameter(outcome)
    \/ \E res \in TrialResults : TrialRequestFails(res)
    \/ \E res \in TrialResults : TrialStatic(res)
    \/ \E res \in TrialResults : TrialVerified(res)
    \/ ScanParameterReturns
    \/ Finish
    \/ SaveCSVReport

Spec == Init /\ [][Next]_vars

-----------------------------------------------------------------------------
(* BrowserVerifier: Start and Close called by a client                      *)

NumVerifiers == 2

MaxCloses == 2

\* NewBrowserVerifier: service and driver are nil
NewBrowserVerifier == [service |-> "nil", driver |-> "nil"]

BrowserInit ==
    /\ SendIdle
    /\ AnalyzeIdle
    /\ ScanIdle
    /\ InjectIdle
    /\ VerifyIdle
    /\ verifiers = [v \in 1..NumVerifiers |-> NewBrowserVerifier]
    /\ lifecycle = [v \in 1..NumVerifiers |-> [start |-> "none", closes |-> 0, issued |-> <<>>]]

\* the Stop that Start issues when the browser connection cannot be created
StartIssues(outcome) ==
    IF outcome = "remote failed" THEN <<[op |-> "Stop", released |-> FALSE]>> ELSE <<>>

\* the Quit and the Stop that Close issues on b, each with whether its target
\* was released already
CloseIssues(b) ==
    (IF b.driver # "nil" THEN <<[op |-> "Quit", released |-> b.driver = "quit"]>> ELSE <<>>)
    \o (IF b.service # "nil"
        THEN <<[op |-> "Stop", released |-> b.service = "stopped"]>> ELSE <<>>)

\* bv.Start() on a verifier fresh from NewBrowserVerifier
StartCall(v, outcome) ==
    /\ lifecycle[v].start = "none"
    /\ lifecycle[v].closes = 0
    /\ verifiers' = [verifiers EXCEPT ![v] = Start(outcome)]
    /\ lifecycle' = [lifecycle EXCEPT ![v].start = outcome,
                                      ![v].issued = @ \o StartIssues(outcome)]
    /\ UNCHANGED <<sendVars, analyzeVars, scanVars, injectVars, verifyVars>>

\* bv.Close()
CloseCall(v) ==
    /\ lifecycle[v].closes < MaxCloses
    /\ verifiers' = [verifiers EXCEPT ![v] = Close(verifiers[v])]
    /\ lifecycle' = [lifecycle EXCEPT ![v].closes = @ + 1,
                                      ![v].issued = @ \o CloseIssues(verifiers[v])]
    /\ UNCHANGED <<sendVars, analyzeVars, scanVars, injectVars, verifyVars>>

BrowserNext ==
    \/ \E v \in 1..NumVerifiers, outcome \in StartOutcomes : StartCall(v, outcome)
    \/ \E v \in 1..NumVerifiers : CloseCall(v)

SpecBrowser == BrowserInit /\ [][BrowserNext]_vars

-----------------------------------------------------------------------------
(* Package net/url, as far as InjectPayload uses it, and InjectPayload      *)

\* the characters QueryEscape leaves as they are
UnreservedChars == Chars(UpperChars \o LowerChars \o "0123456789-_.~")

HexDigits == "0123456789ABCDEF"

\* the value of each hexadecimal digit, of either letter case
HexValue ==
    [c \in Chars("0123456789ABCDEFabcdef") |->
        (CHOOSE k \in 1..Len(HexDigits) : CharAt(HexDigits, k) = c
                                          \/ CharAt(ToLower(HexDigits), k) = c) - 1]

ishex(c) == c \in DOMAIN HexValue

\* the character with the code n (printable ASCII)
CharFromCode(n) == IF n \in 32..126 THEN CharAt(AsciiChars, n - 31) ELSE "?"

QueryEscape(s) ==
    LET escaped(c) ==
            IF c = " " THEN "+"
            ELSE IF c \in UnreservedChars THEN c
            ELSE "%" \o CharAt(HexDigits, (CharCode(c) \div 16) + 1)
                     \o CharAt(HexDigits, (CharCode(c) % 16) + 1)
    IN  Join([i \in 1..Len(s) |-> escaped(CharAt(s, i))], 1, Len(s))

\* QueryUnescape: err when a % is not followed by two hexadecimal digits
QueryUnescape(s) ==
    LET valid(i) == /\ i + 2 <= Len(s)
                    /\ ishex(CharAt(s, i + 1))
                    /\ ishex(CharAt(s, i + 2))
        piece(i) ==
            IF CharAt(s, i) = "%"
            THEN CharFromCode(16 * HexValue[CharAt(s, i + 1)] + HexValue[CharAt(s, i + 2)])
            ELSE IF (i > 1 /\ CharAt(s, i - 1) = "%") \/ (i > 2 /\ CharAt(s, i - 2) = "%")
            THEN ""
            ELSE IF CharAt(s, i) = "+" THEN " "
            ELSE CharAt(s, i)
    IN  IF \E i \in 1..Len(s) : CharAt(s, i) = "%" /\ ~valid(i)
        THEN [err |-> TRUE, value |-> ""]
        ELSE [err |-> FALSE, value |-> Join([i \in 1..Len(s) |-> piece(i)], 1, Len(s))]

\* strings.Cut
Cut(s, sep) ==
    LET i == Index(s, sep)
    IN  IF i = -1 THEN <<s, "">> ELSE <<Slice(s, 0, i), Slice(s, i + Len(sep), Len(s))>>

\* the pieces of s between the separators
RECURSIVE Split(_, _)
Split(s, sep) ==
    LET i == Index(s, sep)
    IN  IF i = -1 THEN <<s>>
        ELSE <<Slice(s, 0, i)>> \o Split(Slice(s, i + Len(sep), Len(s)), sep)

\* url.ParseQuery, errors ignored as URL.Query does: the Values, as the list
\* of the [key, value] pairs in their order; a pair that is empty or whose key
\* or value does not unescape is left out
ParseQuery(query) ==
    LET pieces == IF query = "" THEN <<>> ELSE Split(query, "&")
        parsed == [i \in 1..Len(pieces) |->
                      LET kv == Cut(pieces[i], "=")
                          key == QueryUnescape(kv[1])
                          value == QueryUnescape(kv[2])
                      IN  [ok |-> pieces[i] # "" /\ ~key.err /\ ~value.err,
                           key |-> key.value, value |-> value.value]]
        Ok(kv) == kv.ok
        kept == SelectSeq(parsed, Ok)
    IN  [i \in 1..Len(kept) |-> [key |-> kept[i].key, value |-> kept[i].value]]

\* Values.Set
Set(values, key, value) ==
    LET Other(kv) == kv.key # key
    IN  SelectSeq(values, Other) \o <<[key |-> key, value |-> value]>>

\* the order of Go strings
Less(a, b) ==
    LET n == IF Len(a) < Len(b) THEN Len(a) ELSE Len(b)
        d == {i \in 1..n : CharAt(a, i) # CharAt(b, i)}
    IN  IF d = {} THEN Len(a) < Len(b)
        ELSE LET i == CHOOSE j \in d : \A k \in d : j <= k
             IN  CharCode(CharAt(a, i)) < CharCode(CharAt(b, i))

\* the strings of the set ks in ascending order
RECURSIVE Sorted(_)
Sorted(ks) ==
    IF ks = {} THEN <<>>
    ELSE LET least == CHOOSE k \in ks : \A other \in ks \ {k} : Less(k, other)
         IN  <<least>> \o Sorted(ks \ {least})

\* ss[lo], ..., ss[hi] with sep between them
RECURSIVE JoinWith(_, _, _, _)
JoinWith(ss, sep, lo, hi) ==
    IF lo > hi THEN ""
    ELSE IF lo = hi THEN ss[lo]
    ELSE ss[lo] \o sep \o JoinWith(ss, sep, lo + 1, hi)

\* Values.Encode: sorted by key, the values of a key in their order
Encode(values) ==
    LET keys == Sorted({values[i].key : i \in 1..Len(values)})
        OfKey(k) == LET Is(kv) == kv.key = k IN SelectSeq(values, Is)
        EncodedKey(k) ==
            LET vs == OfKey(k)
            IN  JoinWith([i \in 1..Len(vs) |->
                             QueryEscape(k) \o "=" \o QueryEscape(vs[i].value)],
                         "&", 1, Len(vs))
    IN  JoinWith([i \in 1..Len(keys) |-> EncodedKey(keys[i])], "&", 1, Len(keys))

\* url.Parse of an absolute URL scheme://host[/path][?query][#fragment]
Parse(rawURL) ==
    LET schemeRest == Cut(rawURL, "://")
        restFragment == Cut(schemeRest[2], "#")
        restQuery == Cut(restFragment[1], "?")
        slash == Index(restQuery[1], "/")
    IN  [Scheme |-> ToLower(schemeRest[1]),
         Host |-> IF slash = -1 THEN restQuery[1] ELSE Slice(restQuery[1], 0, slash),
         Path |-> IF slash = -1 THEN ""
                  ELSE Slice(restQuery[1], slash, Len(restQuery[1])),
         RawQuery |-> restQuery[2],
         Fragment |-> restFragment[2]]

\* URL.String
URLString(u) ==
    u.Scheme \o "://" \o u.Host \o u.Path
    \o (IF u.RawQuery # "" THEN "?" \o u.RawQuery ELSE "")
    \o (IF u.Fragment # "" THEN "#" \o u.Fragment ELSE "")

InjectPayload(base, parameter, pl) ==
    LET parsedURL == Parse(base)
        queryParams == Set(ParseQuery(parsedURL.RawQuery), parameter, pl)
    IN  URLString([parsedURL EXCEPT !.RawQuery = Encode(queryParams)])

\* the target URL without a query, as given on the command line
BaseURLs == {"http://x.test", "HTTPS://x.test/search"}

\* query parameters the target URL is given with
RawPairs == {"q=1", "id=7", "id=8", "b=a%20b", "c=x+y%3D", "d=100%"}

InjectedPayloads == {"<script>alert(1)</script>", "a&b=c"}

MaxPairs == 2

InjectInit ==
    /\ SendIdle
    /\ AnalyzeIdle
    /\ ScanIdle
    /\ BrowserIdle
    /\ VerifyIdle
    /\ baseURL \in BaseURLs
    /\ target = ""
    /\ injected = ""
    /\ testURL = ""
    /\ ipc = "input"

\* the number of pairs in the query of baseURL
PairsWritten ==
    LET query == Parse(baseURL).RawQuery
    IN  IF query = "" THEN 0 ELSE Len(Split(query, "&"))

\* one more query parameter in the URL the user gives
AddPair(pair) ==
    /\ ipc = "input"
    /\ PairsWritten < MaxPairs
    /\ baseURL' = baseURL \o (IF Contains(baseURL, "?") THEN "&" ELSE "?") \o pair
    /\ UNCHANGED <<target, injected, testURL, ipc>>
    /\ UNCHANGED <<sendVars, analyzeVars, scanVars, browserVars, verifyVars>>

Inject(parameter, pl) ==
    /\ ipc = "input"
    /\ target' = parameter
    /\ injected' = pl
    /\ testURL' = InjectPayload(baseURL, parameter, pl)
    /\ ipc' = "returned"
    /\ UNCHANGED baseURL
    /\ UNCHANGED <<sendVars, analyzeVars, scanVars, browserVars, verifyVars>>

InjectNext ==
    \/ \E pair \in RawPairs : AddPair(pair)
    \/ \E parameter \in {"q", "id"}, pl \in InjectedPayloads : Inject(parameter, pl)

SpecInject == InjectInit /\ [][InjectNext]_vars

-----------------------------------------------------------------------------
(* BrowserVerifier: VerifyWithRetry and VerifyXSSExecution, one driver call *)
(* per step                                                                *)

MaxVerifyRetries == 2

\* what driver.Get returns: "" for nil, else the text of the error
GetErrors == {
    "",
    "unexpected alert open: {Alert text : 1}",
    "unexpected alert open: {Alert text : confirmation}",
    "unexpected alert open: confirmation",
    "unexpected alert open: confirmation of the prompt",
    "unexpected alert open: prompt",
    "unexpected alert open",
    "timeout: Timed out receiving message from renderer",
    "unknown error: net::ERR_CONNECTION_REFUSED"
}

\* what the two queries return: an error, or the value of the script
DetectedValues == {"error", "true", "false", "null"}

TypeValues == {"error", "alert", "confirm", "prompt", "", "non-string"}

VerifyResult(d, t, e) == [detected |-> d, xssType |-> t, err |-> e]

DriverCall(op, out) == [op |-> op, out |-> out]

\* a verifier that looks for the prompt keyword before the confirmation keyword
XssTypeOfPromptFirst(errMsg) ==
    IF Contains(errMsg, "Alert text") THEN "alert"
    ELSE IF Contains(errMsg, "prompt") THEN "prompt"
    ELSE IF Contains(errMsg, "confirmation") THEN "confirm"
    ELSE "alert"

\* lines 205-213: the kind of dialog, from the wording of the error
XssTypeOf(errMsg) ==
    IF Contains(errMsg, "Alert text") THEN "alert"
    ELSE IF Contains(errMsg, "confirmation") THEN "confirm"
    ELSE IF Contains(errMsg, "prompt") THEN "prompt"
    ELSE "alert"

\* a verifier that takes every navigation error as a failed load
LoadFailedAlways(errMsg) == TRUE

\* line 222: a navigation error other than a timeout
LoadFailed(errMsg) == ~Contains(errMsg, "timeout")

VerifyInit ==
    /\ SendIdle
    /\ AnalyzeIdle
    /\ ScanIdle
    /\ BrowserIdle
    /\ InjectIdle
    /\ verifier \in {Start(outcome) : outcome \in StartOutcomes}
    /\ verifyMaxRetries \in 0..MaxVerifyRetries
    /\ verifyAttempt = 0
    /\ verifyLastErr = NoError
    /\ verifyReturn = VerifyResult(FALSE, "", NoError)
    /\ verifyLog = <<>>
    /\ calls = <<>>
    /\ detected = "nil"
    /\ attemptReturn = VerifyResult(FALSE, "", NoError)
    /\ vpc = "loop"

\* VerifyXSSExecution returns
Returns(r) ==
    /\ attemptReturn' = r
    /\ vpc' = "attemptDone"

\* lines 303-304 and 183-186: the loop calls VerifyXSSExecution
VerifyXSSExecution ==
    /\ vpc = "loop"
    /\ verifyAttempt <= verifyMaxRetries
    /\ calls' = <<>>
    /\ detected' = "nil"
    /\ IF verifier.driver = "nil"
       THEN Returns(VerifyResult(FALSE, "", PlainError("browser not started")))
       ELSE vpc' = "SetPageLoadTimeout" /\ UNCHANGED attemptReturn
    /\ UNCHANGED <<verifier, verifyMaxRetries, verifyAttempt, verifyLastErr, verifyReturn,
                   verifyLog>>
    /\ UNCHANGED <<sendVars, analyzeVars, scanVars, browserVars, injectVars>>

\* lines 189-192
SetPageLoadTimeout(fails) ==
    /\ vpc = "SetPageLoadTimeout"
    /\ calls' = Append(calls, DriverCall("SetPageLoadTimeout", IF fails THEN "error" ELSE ""))
    /\ IF fails
       THEN Returns(VerifyResult(FALSE, "",
                                 WrapError("failed to set timeout", PlainError("error"))))
       ELSE vpc' = "Get" /\ UNCHANGED attemptReturn
    /\ UNCHANGED <<verifier, verifyMaxRetries, verifyAttempt, verifyLastErr, verifyReturn,
                   verifyLog, detected>>
    /\ UNCHANGED <<sendVars, analyzeVars, scanVars, browserVars, injectVars>>

\* lines 196-225
Get(errMsg) ==
    /\ vpc = "Get"
    /\ IF errMsg # "" /\ Contains(errMsg, "unexpected alert open")
       THEN /\ calls' = calls \o <<DriverCall("Get", errMsg), DriverCall("DismissAlert", "")>>
            /\ Returns(VerifyResult(TRUE, XssTypeOf(errMsg), NoError))
       ELSE IF errMsg # "" /\ LoadFailed(errMsg)
       THEN /\ calls' = Append(calls, DriverCall("Get", errMsg))
            /\ Returns(VerifyResult(FALSE, "",
                                    WrapError("failed to load page", PlainError(errMsg))))
       ELSE /\ calls' = Append(calls, DriverCall("Get", errMsg))
            /\ vpc' = "ExecuteScript"
            /\ UNCHANGED attemptReturn
    /\ UNCHANGED <<verifier, verifyMaxRetries, verifyAttempt, verifyLastErr, verifyReturn,
                   verifyLog, detected>>
    /\ UNCHANGED <<sendVars, analyzeVars, scanVars, browserVars, injectVars>>

\* lines 253-262: the detection script, and the look for a dialog when the
\* script could not be run
ExecuteDetectionScript(fails, alertPresent) ==
    /\ vpc = "ExecuteScript"
    /\ IF ~fails
       THEN /\ ~alertPresent
            /\ calls' = Append(calls, DriverCall("ExecuteScript(detectionScript)", ""))
            /\ vpc' = "AlertText"
            /\ UNCHANGED attemptReturn
       ELSE IF alertPresent
       THEN /\ calls' = calls \o <<DriverCall("ExecuteScript(detectionScript)", "error"),
                                   DriverCall("AlertText", "text"),
                                   DriverCall("DismissAlert", "")>>
            /\ Returns(VerifyResult(TRUE, "alert", NoError))
       ELSE /\ calls' = calls \o <<DriverCall("ExecuteScript(detectionScript)", "error"),
                                   DriverCall("AlertText", "error")>>
            /\ vpc' = "AlertText"
            /\ UNCHANGED attemptReturn
    /\ UNCHANGED <<verifier, verifyMaxRetries, verifyAttempt, verifyLastErr, verifyReturn,
                   verifyLog, detected>>
    /\ UNCHANGED <<sendVars, analyzeVars, scanVars, browserVars, injectVars>>

\* lines 264-273: after the sleep, the look for a dialog
AlertText(alertPresent) ==
    /\ vpc = "AlertText"
    /\ IF alertPresent
       THEN /\ calls' = calls \o <<DriverCall("AlertText", "text"),
                                   DriverCall("DismissAlert", "")>>
            /\ Returns(VerifyResult(TRUE, "alert", NoError))
       ELSE /\ calls' = Append(calls, DriverCall("AlertText", "error"))
            /\ vpc' = "QueryDetected"
            /\ UNCHANGED attemptReturn
    /\ UNCHANGED <<verifier, verifyMaxRetries, verifyAttempt, verifyLastErr, verifyReturn,
                   verifyLog, detected>>
    /\ UNCHANGED <<sendVars, analyzeVars, scanVars, browserVars, injectVars>>

\* lines 276-279: the script that returns window.__xss_detected
QueryDetected(value) ==
    /\ vpc = "QueryDetected"
    /\ calls' = Append(calls, DriverCall("ExecuteScript(__xss_detected)", value))
    /\ IF value = "error"
       THEN /\ Returns(VerifyResult(FALSE, "",
                                    WrapError("failed to check detection", PlainError("error"))))
            /\ UNCHANGED detected
       ELSE /\ detected' = value
            /\ vpc' = "QueryType"
            /\ UNCHANGED attemptReturn
    /\ UNCHANGED <<verifier, verifyMaxRetries, verifyAttempt, verifyLastErr, verifyReturn,
                   verifyLog>>
    /\ UNCHANGED <<sendVars, analyzeVars, scanVars, browserVars, injectVars>>

\* lines 281-296: the script that returns window.__xss_type, and the return
QueryType(value) ==
    /\ vpc = "QueryType"
    /\ calls' = Append(calls, DriverCall("ExecuteScript(__xss_type)", value))
    /\ LET isDetected == detected = "true"
           xssTypeStr == IF value \in {"error", "non-string"} THEN "" ELSE value
       IN  Returns(VerifyResult(isDetected, xssTypeStr, NoError))
    /\ UNCHANGED <<verifier, verifyMaxRetries, verifyAttempt, verifyLastErr, verifyReturn,
                   verifyLog, detected>>
    /\ UNCHANGED <<sendVars, analyzeVars, scanVars, browserVars, injectVars>>

\* a VerifyWithRetry that also runs again after a clean negative result
AttemptReturnsRetriesNegative ==
    /\ vpc = "attemptDone"
    /\ verifyLog' = Append(verifyLog, attemptReturn)
    /\ IF attemptReturn.err = NoError /\ attemptReturn.detected
       THEN /\ verifyReturn' = attemptReturn
            /\ vpc' = "returned"
            /\ UNCHANGED <<verifyLastErr, verifyAttempt>>
       ELSE /\ verifyLastErr' = attemptReturn.err
            /\ verifyAttempt' = verifyAttempt + 1
            /\ vpc' = "loop"
            /\ UNCHANGED verifyReturn
    /\ UNCHANGED <<verifier, verifyMaxRetries, calls, detected, attemptReturn>>
    /\ UNCHANGED <<sendVars, analyzeVars, scanVars, browserVars, injectVars>>

\* lines 304-313: VerifyWithRetry takes the result of the attempt
AttemptReturns ==
    /\ vpc = "attemptDone"
    /\ verifyLog' = Append(verifyLog, attemptReturn)
    /\ IF attemptReturn.err = NoError
       THEN /\ verifyReturn' = attemptReturn
            /\ vpc' = "returned"
            /\ UNCHANGED <<verifyLastErr, verifyAttempt>>
       ELSE /\ verifyLastErr' = attemptReturn.err
            /\ verifyAttempt' = verifyAttempt + 1
            /\ vpc' = "loop"
            /\ UNCHANGED verifyReturn
    /\ UNCHANGED <<verifier, verifyMaxRetries, calls, detected, attemptReturn>>
    /\ UNCHANGED <<sendVars, analyzeVars, scanVars, browserVars, injectVars>>

\* line 315: every attempt returned an error
VerifyWithRetryExhausted ==
    /\ vpc = "loop"
    /\ verifyAttempt > verifyMaxRetries
    /\ verifyReturn' = VerifyResult(FALSE, "", verifyLastErr)
    /\ vpc' = "returned"
    /\ UNCHANGED <<verifier, verifyMaxRetries, verifyAttempt, verifyLastErr, verifyLog,
                   calls, detected, attemptReturn>>
    /\ UNCHANGED <<sendVars, analyzeVars, scanVars, browserVars, injectVars>>

VerifyNext ==
    \/ VerifyXSSExecution
    \/ \E fails \in BOOLEAN : SetPageLoadTimeout(fails)
    \/ \E errMsg \in GetErrors : Get(errMsg)
    \/ \E fails, alertPresent \in BOOLEAN : ExecuteDetectionScript(fails, alertPresent)
    \/ \E alertPresent \in BOOLEAN : AlertText(alertPresent)
    \/ \E value \in DetectedValues : QueryDetected(value)
    \/ \E value \in TypeValues : QueryType(value)
    \/ AttemptReturns
    \/ VerifyWithRetryExhausted

SpecVerify == VerifyInit /\ [][VerifyNext]_vars

-----------------------------------------------------------------------------
(* Properties of SendRequest                                                *)

RetryableFailure(a) == a.kind = "transport" /\ isRetryableError(a.err)

\* C1: SendRequest never retries after an HTTP response: whatever the status
\* code, the attempt that obtains a response is the last one, the call has
\* returned, and the outcome carries that response's status and body and no
\* error; a response on the first attempt means one attempt in total.  (An
\* answer whose body cannot be read ends the call as well.)
C1_NoRetryAfterResponse ==
    \A i \in 1..Len(attempts) :
        /\ attempts[i].kind \in {"response", "bodyread"} =>
              i = Len(attempts) /\ spc = "returned"
        /\ attempts[i].kind = "response" =>
              result = [StatusCode |-> attempts[i].status,
                        ResponseBody |-> attempts[i].body,
                        Error |-> NoError]

\* a status 500 answer on the second attempt, after one retried failure
C1_Witness ==
    /\ spc = "returned"
    /\ Len(attempts) = 2
    /\ RetryableFailure(attempts[1])
    /\ attempts[2].kind = "response"
    /\ attempts[2].status = 500
    /\ result.StatusCode = 500

\* C2: when every attempt fails with a retryable transport error, SendRequest
\* makes exactly MaxRetries + 1 attempts and returns an error that wraps the
\* last transport error.
C2_ExhaustionReturnsWrappedError ==
    (/\ spc = "returned"
     /\ attempts # <<>>
     /\ \A i \in 1..Len(attempts) : RetryableFailure(attempts[i]))
    => /\ Len(attempts) = MaxRetries + 1
       /\ result.Error.kind = "wrapped"
       /\ result.Error.inner = attempts[Len(attempts)].err

\* C3: a further attempt is made only after an attempt failed with a
\* retryable transport error; any other failure of an attempt ends the call
\* with an error outcome.
C3_RetryOnlyAfterRetryableTransportError ==
    /\ \A i \in 1..(Len(attempts) - 1) : RetryableFailure(attempts[i])
    /\ \A i \in 1..Len(attempts) :
          (spc = "returned" /\ attempts[i].kind # "response") => result.Error # NoError

-----------------------------------------------------------------------------
(* Properties of AnalyzeResponse                                            *)

Analyzed == acpc = "analyzed"

\* the containers whose content a browser shows as text
InertContainers == {
    [open |-> "<!--", close |-> "-->"],
    [open |-> "<textarea>", close |-> "</textarea>"],
    [open |-> "<title>", close |-> "</title>"]
}

\* pl occurs in body once, directly inside container c: nothing but at most a
\* space stands between the opening tag and pl, and between pl and the
\* closing tag
OnlyInside(body, pl, c) ==
    /\ Cardinality(Occurrences(body, pl)) = 1
    /\ ~Contains(pl, c.close)
    /\ \E before \in {"", " "}, after \in {"", " "} :
          Contains(body, c.open \o before \o pl \o after \o c.close)

\* C4: a payload that is in the body verbatim only inside an HTML comment, a
\* <textarea> or a <title> is classified EscapedReflection, never
\* RawReflection, also when the closing tag follows the payload immediately.
\* (Stated for the payloads of 3 characters and more, which the classifier
\* always takes as genuine hits.)
C4_InertContainerIsEscaped ==
    (/\ Analyzed
     /\ Len(payload) >= 3
     /\ \E c \in InertContainers : OnlyInside(responseBody, payload, c))
    => analysis.Type = EscapedReflection

\* the opening tags of the safe containers, lower case
SafeOpeningTags == {
    "<!--", "<title>", "<textarea", "<noscript>", "<style", "<xmp>", "<plaintext>", "<listing>"
}

\* C5: a payload of at least 3 characters that is in the body verbatim, in a
\* body that holds no safe-container opening tag in any letter case, is
\* classified RawReflection.
C5_PlainReflectionIsRaw ==
    (/\ Analyzed
     /\ Len(payload) >= 3
     /\ Contains(responseBody, payload)
     /\ LET lower == ToLower(responseBody)
        IN  \A tag \in SafeOpeningTags : ~Contains(lower, tag))
    => analysis.Type = RawReflection

\* the scenario: <script>alert(1)</script> inside <div>Hello ... World</div>
C5_Witness ==
    /\ Analyzed
    /\ payload = "<script>alert(1)</script>"
    /\ responseBody = "<div>Hello <script>alert(1)</script> World</div>"
    /\ analysis.Type = RawReflection

\* C6: a body that holds the payload neither verbatim, nor fully entity
\* escaped, nor in one of the cumulatively substituted forms, nor numerically
\* encoded, is classified NoReflection.
C6_AbsentPayloadIsNoReflection ==
    (/\ Analyzed
     /\ ~Contains(responseBody, payload)
     /\ ~Contains(responseBody, EntityEscaped(payload))
     /\ \A k \in 1..Len(escapePatterns) :
           ~Contains(responseBody, testPayloads(payload, Len(escapePatterns))[k])
     /\ ~Contains(responseBody, NumericEncoded(payload)))
    => analysis.Type = NoReflection

HtmlSpecialChars == {"&", "<", ">", "\"", "'"}

\* C7: a payload with an HTML special character whose fully entity-escaped
\* form is in the body, and which is not in the body verbatim, is classified
\* EscapedReflection.
C7_EntityEscapedIsEscaped ==
    (/\ Analyzed
     /\ Chars(payload) \cap HtmlSpecialChars # {}
     /\ Contains(responseBody, EntityEscaped(payload))
     /\ ~Contains(responseBody, payload))
    => analysis.Type = EscapedReflection

\* a payload with quotes and an ampersand, reflected entity-escaped in a page
C7_Witness ==
    /\ Analyzed
    /\ payload = "'a&b'"
    /\ responseBody = "<div>Hello &#39;a&amp;b&#39; World</div>"
    /\ analysis.Type = EscapedReflection

\* C8: a non-empty payload that is not in the body verbatim, in a body that
\* holds every character of it as a decimal character reference, is
\* classified EscapedReflection.
C8_NumericEncodedIsEscaped ==
    (/\ Analyzed
     /\ payload # ""
     /\ ~Contains(responseBody, payload)
     /\ Contains(responseBody, NumericEncoded(payload)))
    => analysis.Type = EscapedReflection

-----------------------------------------------------------------------------
(* Properties of the scan                                                   *)

\* every trial recorded so far, in the order of recording
Recorded == summary.Results \o results

\* the positions, in config.Params and in payloads, of a recorded trial
PositionOf(r) ==
    <<CHOOSE p \in 1..Len(scan.Params) : scan.Params[p] = r.Parameter,
      CHOOSE k \in 1..Len(scan.payloads) : scan.payloads[k] = r.Payload>>

\* C9: with stop-on-hit enabled, once the trial of payload k of a parameter is
\* classified as a raw reflection, that trial is recorded, no request is sent
\* and no trial is recorded for the later payloads of that parameter, and every
\* following parameter is still scanned, starting from its first payload.
C9_StopOnHitEndsOnlyTheParameter ==
    /\ scan.StopOnHit =>
          \A i \in 1..Len(Recorded) :
              Recorded[i].ReflectionType = RawReflection =>
                  LET pos == PositionOf(Recorded[i])
                  IN  /\ \A j \in 1..Len(requests) :
                            requests[j][1] = pos[1] => requests[j][2] <= pos[2]
                      /\ \A j \in 1..Len(Recorded) :
                            PositionOf(Recorded[j])[1] = pos[1]
                                => PositionOf(Recorded[j])[2] <= pos[2]
    /\ mpc = "return" =>
          /\ results # <<>>
          /\ results[Len(results)].ReflectionType = RawReflection
          /\ PositionOf(results[Len(results)]) = <<paramIdx, payloadIdx>>
    /\ \A j \in 1..Len(requests) :
          \/ requests[j][2] = 1
          \/ j > 1 /\ requests[j - 1] = <<requests[j][1], requests[j][2] - 1>>
    /\ mpc = "done" =>
          \A p \in 1..Len(scan.Params) : \E j \in 1..Len(requests) : requests[j] = <<p, 1>>

\* a finished stop-on-hit scan whose first parameter hit on its first payload
C9_Witness ==
    /\ scan.StopOnHit
    /\ mpc = "done"
    /\ requests = <<<<1, 1>>, <<2, 1>>, <<2, 2>>>>
    /\ Len(summary.Results) = 3
    /\ summary.Results[1].ReflectionType = RawReflection

RecordedKept ==
    /\ Len(Recorded') >= Len(Recorded)
    /\ \A i \in 1..Len(Recorded) : Recorded'[i] = Recorded[i]

\* C10: every recorded trial marked browser-verified has the verdict raw
\* reflection, and a trial, once recorded, is never changed.
C10_VerifiedOnlyRaw ==
    /\ [](\A i \in 1..Len(Recorded) :
             Recorded[i].BrowserVerified => Recorded[i].ReflectionType = RawReflection)
    /\ [][RecordedKept]_vars

\* a browser-verified trial with a later trial recorded after it
C10_Witness ==
    \E i \in 1..Len(Recorded) :
        /\ Recorded[i].BrowserVerified
        /\ i < Len(Recorded)
        /\ Recorded[i + 1].ReflectionType = EscapedReflection
        /\ mpc = "done"

\* the positions of the recorded trials
RecordedPositions == {PositionOf(Recorded[i]) : i \in 1..Len(Recorded)}

\* C11: a request that returns an error leaves no trial for its (parameter,
\* payload) pair, neither the classifier nor the browser is called for the
\* pair, the scan goes on with the next payload of the same parameter, and
\* there are as many recorded trials as requests that returned without error
\* (without stop-on-hit: as many as pairs whose request did).
C11_FailedRequestIsSkipped ==
    /\ \A pos \in failed :
          /\ pos \notin RecordedPositions
          /\ pos \notin classified
          /\ \A j \in 1..Len(navigations) : navigations[j] # pos
    /\ \A j \in 1..Len(requests) :
          (requests[j] \in failed /\ requests[j][2] < Len(scan.payloads)) =>
              IF j < Len(requests)
              THEN requests[j + 1] = <<requests[j][1], requests[j][2] + 1>>
              ELSE /\ mpc = "loop"
                   /\ <<paramIdx, payloadIdx>> = <<requests[j][1], requests[j][2] + 1>>
    /\ Len(Recorded) = Len(requests) - Cardinality(failed)
    /\ (~scan.StopOnHit /\ mpc \in {"done", "reported"}) =>
          Len(Recorded) = Len(scan.Params) * Len(scan.payloads) - Cardinality(failed)

\* a finished scan in which the first request failed and the next payload of
\* the same parameter was tried and recorded
C11_Witness ==
    /\ mpc = "reported"
    /\ ~scan.StopOnHit
    /\ failed = {<<1, 1>>}
    /\ Len(Recorded) = 3
    /\ PositionOf(Recorded[1]) = <<1, 2>>

\* the position the scan requests after pos, <<0, 0>> when pos ends the scan:
\* the next payload, or the first payload of the next parameter once the
\* parameter's loop has ended (raw trial under stop-on-hit, or last payload)
PositionAfterRaw(pos) ==
    IF ~scan.StopOnHit /\ pos[2] < Len(scan.payloads) THEN <<pos[1], pos[2] + 1>>
    ELSE IF pos[1] < Len(scan.Params) THEN <<pos[1] + 1, 1>>
    ELSE <<0, 0>>

\* C12: a trial whose verification returned an error is recorded with the
\* verdict raw reflection, BrowserVerified false and no trigger kind, and the
\* scan goes on after it: to the next payload, or, when stop-on-hit ends the
\* parameter, to the next parameter.
C12_VerifyErrorKeepsRawTrial ==
    /\ \A pos \in verifyFailed :
          \E i \in 1..Len(Recorded) :
              /\ PositionOf(Recorded[i]) = pos
              /\ Recorded[i].ReflectionType = RawReflection
              /\ ~Recorded[i].BrowserVerified
              /\ Recorded[i].XSSEventType = ""
    /\ \A j \in 1..Len(requests) :
          requests[j] \in verifyFailed =>
              /\ j < Len(requests) => requests[j + 1] = PositionAfterRaw(requests[j])
              /\ (mpc \in {"done", "reported"} /\ PositionAfterRaw(requests[j]) # <<0, 0>>)
                     => j < Len(requests)

\* a finished stop-on-hit scan whose first trial was raw with a failed
\* verification: it is recorded and the second parameter was scanned
C12_Witness ==
    /\ mpc = "reported"
    /\ scan.StopOnHit
    /\ <<1, 1>> \in verifyFailed
    /\ Recorded[1].ReflectionType = RawReflection
    /\ ~Recorded[1].BrowserVerified
    /\ requests[2] = <<2, 1>>
-----------------------------------------------------------------------------
(* Properties of BrowserVerifier                                            *)

\* C13: after a Start that succeeded, or that failed once the driver service
\* was running, and one or more Close calls, the browser is quit and the
\* service stopped, and no Quit or Stop was issued on a browser or service
\* that was released already.
C13_CloseIdempotentAndComplete ==
    \A v \in DOMAIN verifiers :
        (lifecycle[v].start \in {"started", "remote failed"} /\ lifecycle[v].closes >= 1) =>
            /\ verifiers[v].driver # "open"
            /\ verifiers[v].service # "running"
            /\ \A i \in 1..Len(lifecycle[v].issued) : ~lifecycle[v].issued[i].released
-----------------------------------------------------------------------------
(* Properties of the scan, continued                                        *)

\* the trials recorded for the p-th parameter
TrialsOf(p) == {i \in 1..Len(Recorded) : PositionOf(Recorded[i])[1] = p}

\* C14: the browser session is opened lazily: for a parameter whose scan has
\* ended, the driver service or the browser was started only if one of the
\* parameter's trials was classified as a raw reflection.
C14_SessionOpenedLazily ==
    \A p \in 1..Len(starts) :
        (p < paramIdx /\ starts[p] \in {"started", "remote failed"}) =>
            \E i \in TrialsOf(p) : Recorded[i].ReflectionType = RawReflection
-----------------------------------------------------------------------------
(* Properties of InjectPayload                                              *)

\* the pairs a query is written with: key and value of every non-empty piece,
\* unescaped where they unescape and as written where they do not
WrittenPairs(query) ==
    LET pieces == IF query = "" THEN <<>> ELSE Split(query, "&")
        NonEmpty(piece) == piece # ""
        kept == SelectSeq(pieces, NonEmpty)
        Read(s) == IF QueryUnescape(s).err THEN s ELSE QueryUnescape(s).value
    IN  [i \in 1..Len(kept) |->
            [key |-> Read(Cut(kept[i], "=")[1]), value |-> Read(Cut(kept[i], "=")[2])]]

\* the values, in their order, that a list of pairs gives a key
ValuesFor(pairs, key) ==
    LET Is(kv) == kv.key = key
        of == SelectSeq(pairs, Is)
    IN  [i \in 1..Len(of) |-> of[i].value]

\* C15: in the returned URL the target parameter has exactly one value, the
\* payload; every other parameter the base URL's query is written with keeps
\* its list of values; scheme, host and path are those of the base URL.
C15_InjectChangesOnlyTarget ==
    ipc = "returned" =>
        LET base == Parse(baseURL)
            out == Parse(testURL)
        IN  /\ ValuesFor(ParseQuery(out.RawQuery), target) = <<injected>>
            /\ \A i \in 1..Len(WrittenPairs(base.RawQuery)) :
                  LET key == WrittenPairs(base.RawQuery)[i].key
                  IN  key # target =>
                          ValuesFor(WrittenPairs(out.RawQuery), key)
                              = ValuesFor(WrittenPairs(base.RawQuery), key)
            /\ out.Scheme = base.Scheme
            /\ out.Host = base.Host
            /\ out.Path = base.Path

StartFailed(p) == starts[p] \in {"service failed", "remote failed"}

\* C16: when Start fails for a parameter, the browser is never used for it,
\* its trials are recorded unverified, every request of it that returned is
\* classified, every payload of it is requested (up to the raw hit that ends
\* it under stop-on-hit), and the following parameters are scanned.
C16_StartFailureFallsBackToStatic ==
    /\ \A p \in 1..Len(starts) :
          StartFailed(p) =>
              /\ \A j \in 1..Len(navigations) : navigations[j][1] # p
              /\ \A i \in TrialsOf(p) :
                    ~Recorded[i].BrowserVerified /\ Recorded[i].XSSEventType = ""
              /\ \A j \in 1..Len(requests) :
                    (requests[j][1] = p /\ requests[j] \notin failed)
                        => requests[j] \in classified /\ requests[j] \in RecordedPositions
              /\ p < paramIdx =>
                    \A k \in 1..Len(scan.payloads) :
                        \/ \E j \in 1..Len(requests) : requests[j] = <<p, k>>
                        \/ /\ scan.StopOnHit
                           /\ \E i \in TrialsOf(p) :
                                 /\ Recorded[i].ReflectionType = RawReflection
                                 /\ PositionOf(Recorded[i])[2] < k
    /\ mpc \in {"done", "reported"} =>
          /\ Len(starts) = Len(scan.Params)
          /\ \A p \in 1..Len(scan.Params) : \E j \in 1..Len(requests) : requests[j] = <<p, 1>>

\* a finished scan whose first parameter had no browser and a raw trial, and
\* whose second parameter had one and a verified trial
C16_Witness ==
    /\ mpc = "reported"
    /\ ~scan.StopOnHit
    /\ starts = <<"service failed", "started">>
    /\ Len(Recorded) = 4
    /\ Recorded[1].ReflectionType = RawReflection
    /\ ~Recorded[1].BrowserVerified
    /\ Recorded[3].BrowserVerified

\* C17: the severity reported for a trial is Critical for a browser-verified
\* raw reflection, High for a raw reflection that is not browser-verified,
\* Medium for an escaped reflection and Info for no reflection.
C17_SeverityLevels ==
    \A i \in 1..Len(report) :
        report[i].Severity =
            IF report[i].Reflection_Type = RawReflection
            THEN IF report[i].Browser_Verified = "Yes" THEN "Critical" ELSE "High"
            ELSE IF report[i].Reflection_Type = EscapedReflection THEN "Medium"
            ELSE "Info"

\* position a comes before position b in the (parameter, payload) enumeration
Before(a, b) == a[1] < b[1] \/ (a[1] = b[1] /\ a[2] < b[2])

\* C18: the recorded trials are in (parameter, payload) enumeration order, no
\* pair is recorded twice, and the report has one row per recorded trial, in
\* the same order.
C18_ResultsInEnumerationOrder ==
    /\ \A i, j \in 1..Len(Recorded) :
          i < j => Before(PositionOf(Recorded[i]), PositionOf(Recorded[j]))
    /\ mpc = "reported" =>
          /\ Len(report) = Len(summary.Results)
          /\ \A i \in 1..Len(report) :
                /\ report[i].Parameter = summary.Results[i].Parameter
                /\ report[i].Payload = summary.Results[i].Payload

\* a report with the four trials of two parameters and two payloads
C18_Witness ==
    /\ mpc = "reported"
    /\ Len(report) = 4
    /\ report[2].Parameter = "q"
    /\ report[3].Parameter = "id"
    /\ report[3].Payload = "<script>alert(1)</script>"

-----------------------------------------------------------------------------
(* Properties of AnalyzeResponse, continued                                *)

\* safe container k encloses the first occurrence of pl in body: its opening
\* tag stands before pl and its closing tag, if it has one, after pl
Enclosed(body, pl, k) ==
    LET lower == ToLower(body)
        pos == Index(lower, ToLower(pl))
    IN  /\ Contains(Slice(lower, 0, pos), safeContexts[k])
        /\ \/ closingTags[k] = ""
           \/ Contains(Slice(lower, pos + Len(pl), Len(lower)), closingTags[k])

\* C19: a payload of at least 3 characters that is in the body verbatim is
\* judged safe (EscapedReflection) only when a safe container encloses it; when
\* no safe container encloses it, as when the container was closed before the
\* payload or never closed, the verdict is RawReflection.
C19_SafeOnlyWhenEnclosed ==
    (/\ Analyzed
     /\ Len(payload) >= 3
     /\ Contains(responseBody, payload))
    => /\ analysis.Type = EscapedReflection
            => \E k \in 1..Len(safeContexts) : Enclosed(responseBody, payload, k)
       /\ (\A k \in 1..Len(safeContexts) : ~Enclosed(responseBody, payload, k))
            => analysis.Type = RawReflection

\* C20: a payload that is in the body verbatim goes to the dangerous-context
\* test exactly when it is a common markup fragment or has at least 3
\* characters; a shorter payload that is no common fragment is never
\* classified RawReflection.
C20_ShortPayloadIsNoGenuineHit ==
    (/\ Analyzed
     /\ Contains(responseBody, payload))
    => IF isCommonHTMLFragment(payload) \/ Len(payload) >= 3
       THEN analysis.Type = IF isInDangerousContext(responseBody, payload)
                            THEN RawReflection
                            ELSE EscapedReflection
       ELSE analysis.Type # RawReflection

\* C28: every entry of the escape-pattern table is effective: a body without
\* the verbatim payload that holds the payload with the one character of a
\* pattern rewritten (an apostrophe as &apos;, for one) is classified
\* EscapedReflection.
C28_EveryEscapePatternIsEffective ==
    \A k \in 1..Len(escapePatterns) :
        (/\ Analyzed
         /\ Contains(payload, escapePatterns[k].from)
         /\ ~Contains(responseBody, payload)
         /\ Contains(responseBody, Substituted(payload, k)))
        => analysis.Type = EscapedReflection

-----------------------------------------------------------------------------
(* Properties of the scan: the browser session                             *)

\* C25: the browser opens a page only for a trial classified RawReflection,
\* with browser verification enabled and the session of the trial's parameter
\* started; for a trial classified EscapedReflection or NoReflection the
\* browser opens no page.
C25_BrowserOnlyForRawWithSession ==
    /\ \A j \in 1..Len(navigations) :
          /\ scan.BrowserVerify
          /\ starts[navigations[j][1]] = "started"
          /\ \E i \in 1..Len(Recorded) :
                /\ PositionOf(Recorded[i]) = navigations[j]
                /\ Recorded[i].ReflectionType = RawReflection
    /\ \A i \in 1..Len(Recorded) :
          Recorded[i].ReflectionType \in {EscapedReflection, NoReflection} =>
              \A j \in 1..Len(navigations) : navigations[j] # PositionOf(Recorded[i])

\* a finished scan with verification enabled: the browser opened the page of a
\* raw trial and an escaped trial was recorded with no page opened
C25_Witness ==
    /\ mpc = "done"
    /\ scan.BrowserVerify
    /\ navigations = <<<<1, 1>>>>
    /\ \E i \in 1..Len(Recorded) :
          /\ Recorded[i].ReflectionType = EscapedReflection
          /\ PositionOf(Recorded[i]) = <<1, 2>>

\* the parameters whose browser session is live: started and not closed
LiveSessions == {p \in 1..Len(starts) : starts[p] = "started" /\ closes[p] = 0}

DangerousAtFirstVerbatim(body, pl) ==
    LET index == Index(body, pl)
        contextStart == IF index - ContextWindow < 0 THEN 0 ELSE index - ContextWindow
        contextEnd == IF index + Len(pl) + ContextWindow > Len(body)
                      THEN Len(body)
                      ELSE index + Len(pl) + ContextWindow
        contextLower == ToLower(Slice(body, contextStart, contextEnd))
        before == Slice(contextLower, 0, index - contextStart)
        after == Slice(contextLower, index - contextStart, Len(contextLower))
        judgedSafe(k) ==
            /\ LastIndex(before, safeContexts[k]) # -1
            /\ \/ closingTags[k] = ""
               \/ LET closingPos == Index(after, closingTags[k])
                  IN  closingPos = -1 \/ closingPos > Len(pl)
    IN  ~(\E k \in 1..Len(safeContexts) : judgedSafe(k))

\* C21: the dangerous-context test is made at the first verbatim occurrence of
\* the payload in the body, also when a copy of the payload in another letter
\* case stands earlier in the body: the verdict of a payload of at least 3
\* characters that is in the body verbatim is the one the test gives at that
\* occurrence.
C21_ContextTestAtFirstVerbatimOccurrence ==
    (/\ Analyzed
     /\ Len(payload) >= 3
     /\ Contains(responseBody, payload))
    => analysis.Type = IF DangerousAtFirstVerbatim(responseBody, payload)
                       THEN RawReflection
                       ELSE EscapedReflection

-----------------------------------------------------------------------------
(* Properties of VerifyXSSExecution and VerifyWithRetry                    *)

\* the error text driver.Get returned in the current attempt ("" for nil);
\* "none" as long as Get was not called
Navigation == IF Len(calls) >= 2 THEN calls[2].out ELSE "none"

AlertOpen(errMsg) == Contains(errMsg, "unexpected alert open")

\* C22: when the navigation fails with an error that reports an unexpected
\* open alert, VerifyXSSExecution returns triggered = true and no error, its
\* last driver call is the dismissal of the dialog, the probe script is never
\* injected, and the kind is alert if the error holds the alert-text keyword,
\* else confirm if it holds the confirmation keyword, else prompt if it holds
\* the prompt keyword, else alert.
C22_AlertOpenIsPositive ==
    (Navigation # "none" /\ AlertOpen(Navigation)) =>
        /\ vpc \in {"attemptDone", "returned"}
        /\ calls = <<DriverCall("SetPageLoadTimeout", ""),
                     DriverCall("Get", Navigation),
                     DriverCall("DismissAlert", "")>>
        /\ attemptReturn.detected
        /\ attemptReturn.err = NoError
        /\ attemptReturn.xssType =
              IF Contains(Navigation, "Alert text") THEN "alert"
              ELSE IF Contains(Navigation, "confirmation") THEN "confirm"
              ELSE IF Contains(Navigation, "prompt") THEN "prompt"
              ELSE "alert"
        /\ vpc = "returned" => verifyReturn = attemptReturn

\* an alert-open error that names the confirmation and the prompt, resolved as
\* a confirm
C22_Witness ==
    /\ vpc = "returned"
    /\ Navigation = "unexpected alert open: confirmation of the prompt"
    /\ verifyReturn = VerifyResult(TRUE, "confirm", NoError)

\* a navigation error that is neither an open alert nor a timeout
HardNavigationError(errMsg) ==
    /\ errMsg \notin {"", "none"}
    /\ ~AlertOpen(errMsg)
    /\ ~Contains(errMsg, "timeout")

NavigationTimeout(errMsg) ==
    /\ errMsg \notin {"", "none"}
    /\ ~AlertOpen(errMsg)
    /\ Contains(errMsg, "timeout")

\* the Get step that ends with errMsg
GetStep(errMsg) ==
    /\ vpc = "Get"
    /\ calls' = Append(calls, DriverCall("Get", errMsg))

\* C23: a navigation error that is neither an open alert nor a timeout makes
\* VerifyXSSExecution return (false, "", error) with no further driver call;
\* after a navigation timeout it returns no error at that point and goes on
\* to inject the probe script, in the state it goes on in after a load
\* without error.
C23_HardErrorAbortsTimeoutContinues ==
    /\ [](/\ HardNavigationError(Navigation) =>
                /\ Len(calls) = 2
                /\ vpc \in {"attemptDone", "loop", "returned"}
                /\ attemptReturn =
                      VerifyResult(FALSE, "",
                                   WrapError("failed to load page", PlainError(Navigation)))
          /\ NavigationTimeout(Navigation) =>
                /\ IF Len(calls) = 2
                   THEN vpc = "ExecuteScript"
                   ELSE calls[3].op = "ExecuteScript(detectionScript)"
                /\ vpc \in {"attemptDone", "loop", "returned"} =>
                      \/ attemptReturn.err = NoError
                      \/ attemptReturn.err =
                            WrapError("failed to check detection", PlainError("error")))
    /\ [][\A errMsg \in GetErrors :
             (GetStep(errMsg) /\ (errMsg = "" \/ NavigationTimeout(errMsg))) =>
                 /\ vpc' = "ExecuteScript"
                 /\ UNCHANGED <<verifier, verifyMaxRetries, verifyAttempt, verifyLastErr,
                                verifyReturn, verifyLog, detected, attemptReturn>>]_vars

\* a first attempt that ended with a failed load, and a second one that went
\* on after a navigation timeout and detected the dialog functions called
C23_Witness ==
    /\ vpc = "returned"
    /\ Len(verifyLog) = 2
    /\ verifyLog[1].err = WrapError("failed to load page",
                                    PlainError("unknown error: net::ERR_CONNECTION_REFUSED"))
    /\ NavigationTimeout(Navigation)
    /\ Len(calls) = 6
    /\ verifyReturn = VerifyResult(TRUE, "alert", NoError)

\* C24: VerifyWithRetry runs VerifyXSSExecution at most maxRetries + 1 times,
\* runs it again only after it returned an error, returns the first result
\* without error at once (a clean negative included), and when every attempt
\* returned an error returns (false, "", the error of the last attempt).
C24_RetryOnlyOnError ==
    /\ Len(verifyLog) <= verifyMaxRetries + 1
    /\ vpc \notin {"loop", "returned"} =>
          /\ verifyAttempt <= verifyMaxRetries
          /\ Len(verifyLog) = verifyAttempt
    /\ \A i \in 1..(Len(verifyLog) - 1) : verifyLog[i].err # NoError
    /\ (verifyLog # <<>> /\ verifyLog[Len(verifyLog)].err = NoError) =>
          /\ vpc = "returned"
          /\ verifyReturn = verifyLog[Len(verifyLog)]
    /\ vpc = "returned" =>
          /\ verifyLog # <<>>
          /\ verifyLog[Len(verifyLog)].err # NoError =>
                /\ Len(verifyLog) = verifyMaxRetries + 1
                /\ verifyReturn = VerifyResult(FALSE, "", verifyLog[Len(verifyLog)].err)

\* three attempts that all returned an error, the last error another one than
\* the first
C24_Witness ==
    /\ vpc = "returned"
    /\ verifyMaxRetries = 2
    /\ Len(verifyLog) = 3
    /\ verifyLog[1].err # verifyLog[3].err
    /\ verifyReturn = VerifyResult(FALSE, "", verifyLog[3].err)
    /\ verifyReturn.err # NoError

\* C27: a verification that returns triggered = true and no error returns one
\* of the kinds alert, confirm, prompt.
C27_TriggeredHasKind ==
    /\ vpc \in {"attemptDone", "returned"} =>
          ((attemptReturn.detected /\ attemptReturn.err = NoError) =>
              attemptReturn.xssType \in {"alert", "confirm", "prompt"})
    /\ vpc = "returned" =>
          ((verifyReturn.detected /\ verifyReturn.err = NoError) =>
              verifyReturn.xssType \in {"alert", "confirm", "prompt"})
=============================================================================
